---------------------------- MODULE Spec2Model ----------------------------
(***************************************************************************)
(* A model of the svg-cardmaker tools.                                     *)
(*                                                                         *)
(*   collect_and_print.py : the sheet packer (parse_adds, collect_files,   *)
(*       a4_dimensions, layout_positions, draw_crop_marks, make_sheets,    *)
(*       main), modelled as the run of one invocation (Spec) and as the    *)
(*       pure layout function over wide numeric inputs (SpecLayout).       *)
(*   generate_cards.py : the card layout engine (get_theme,                *)
(*       build_optional_str, build_svg) under SpecCard, and the text       *)
(*       wrapper (wrap_svg_text) under SpecWrap.                           *)
(*                                                                         *)
(* File and card names are sequences of one-character strings, so that     *)
(* lower() and strip() are computed and not assumed.  A Python dict is a   *)
(* function whose DOMAIN is its key set; None is the empty sequence and a  *)
(* given value v is <<v>>.                                                 *)
(***************************************************************************)
EXTENDS Integers, Sequences, FiniteSets, TLC

VARIABLES
    \* ---- collect_and_print.py: one run ----
    pc,            \* where the run is
    entry,         \* "main" (the command line) or "make_sheets" (a direct call)
    args,          \* the parsed command line / the arguments of make_sheets
    cards_dir,     \* the stems of the *.svg files of the card directory
    requests,      \* main: the result of parse_adds
    svg_list,      \* main: the result of collect_files; make_sheets: svg_paths
    raster_calls,  \* how many times rasterize_svg has been called
    pngs,          \* make_sheets: the rasterized images, in order
    positions,     \* make_sheets: the cell origins
    pages,         \* make_sheets: the composed pages
    out_pdf,       \* the output document: <<>> while not written, else <<pages>>
    error,         \* the exception that ended the run, "none" otherwise
    \* ---- layout_positions as a pure function ----
    lpc, lin, lout,
    \* ---- generate_cards.py: build_svg of one card ----
    cpc, card, theme, opt_str, svg,
    \* ---- generate_cards.py: wrap_svg_text ----
    wpc, win, lines, tspans

sheetVars == <<pc, entry, args, cards_dir, requests, svg_list, raster_calls,
               pngs, positions, pages, out_pdf, error>>
layVars   == <<lpc, lin, lout>>
cardVars  == <<cpc, card, theme, opt_str, svg>>
wrapVars  == <<wpc, win, lines, tspans>>
vars      == <<sheetVars, layVars, cardVars, wrapVars>>

-----------------------------------------------------------------------------
(* Bounds of the model *)

MaxAdds  == 2     \* --add options on the command line
MaxGrid  == 2     \* columns and rows per page
MaxPaths == 5     \* images handed to make_sheets in a direct call
MaxOffset == 3    \* crop-mark offsets tried, 1..MaxOffset
MaxLen    == 3    \* crop-mark lengths tried, 0..MaxLen
MaxSheet  == 6    \* layout_positions alone: page sides 0..MaxSheet
MaxCard   == 2    \* layout_positions alone: card sides 1..MaxCard
MaxGutter == 1    \* layout_positions alone: gutters -1..MaxGutter
MaxMargin == 1    \* layout_positions alone: margins 0..MaxMargin
MaxParas  == 3    \* wrap_svg_text: paragraphs (or list elements) of the text

-----------------------------------------------------------------------------
(* Helpers *)

Min(a, b) == IF a < b THEN a ELSE b
Max(a, b) == IF a > b THEN a ELSE b

SeqsUpTo(S, n) == UNION {[1..k -> S] : k \in 0..n}

\* [x] * n of Python: the empty list for n <= 0
Repeat(x, n) == [j \in 1..n |-> x]

-----------------------------------------------------------------------------
(* collect_and_print.py : names *)

\* str.lower(), on the characters the model uses
LowerChar(c) ==
    CASE c = "S" -> "s"
      [] c = "W" -> "w"
      [] c = "P" -> "p"
      [] c = "O" -> "o"
      [] OTHER   -> c

\* lower() forgotten: names compared as written
lower_as_written(s) == s

lower(s) == [i \in 1..Len(s) |-> LowerChar(s[i])]

\* str.strip(): leading and trailing blanks removed
RECURSIVE lstrip(_)
lstrip(s) == IF s # <<>> /\ Head(s) = " " THEN lstrip(Tail(s)) ELSE s

RECURSIVE rstrip(_)
rstrip(s) ==
    IF s # <<>> /\ s[Len(s)] = " " THEN rstrip(SubSeq(s, 1, Len(s) - 1)) ELSE s

strip(s) == rstrip(lstrip(s))

-----------------------------------------------------------------------------
(* parse_adds *)

\* One --add item "Name=count": eq says whether it holds an "=", name and cnt
\* are the two sides of the first "=" (cnt already read by int()).
\* The result is [ok, out]: ok = FALSE is the ValueError of an item without "=".
RECURSIVE parse_adds_loop(_, _)
parse_adds_loop(add_list, out) ==
    IF add_list = <<>> THEN [ok |-> TRUE, out |-> out]
    ELSE LET item == Head(add_list) IN
         IF ~item.eq THEN [ok |-> FALSE, out |-> <<>>]
         ELSE IF item.cnt <= 0 THEN parse_adds_loop(Tail(add_list), out)
         ELSE parse_adds_loop(Tail(add_list),
                  Append(out, [base |-> strip(item.name), count |-> item.cnt]))

parse_adds(add_list) == parse_adds_loop(add_list, <<>>)

-----------------------------------------------------------------------------
(* collect_files *)

\* The index built from cards_dir.glob("*.svg"): index[p.stem.lower()] = p.
\* Two files whose stems differ only in case share a key; the one globbed
\* last stays, and the glob order is the file system's: any of them.
Indexes(dir) ==
    LET keys == {lower(s) : s \in dir}
    IN  {f \in [keys -> dir] : \A k \in keys : lower(f[k]) = k}

\* The request loop.  [ok, out]: ok = FALSE is the FileNotFoundError.
RECURSIVE collect_loop(_, _, _)
collect_loop(index, reqs, out) ==
    IF reqs = <<>> THEN [ok |-> TRUE, out |-> out]
    ELSE LET key == lower(Head(reqs).base) IN
         IF key \notin DOMAIN index THEN [ok |-> FALSE, out |-> <<>>]
         ELSE collect_loop(index, Tail(reqs),
                           out \o Repeat(index[key], Head(reqs).count))

collect_files(index, reqs) == collect_loop(index, reqs, <<>>)

-----------------------------------------------------------------------------
(* a4_dimensions *)

\* int(round(inches * dpi)) with inches = hi/1000 + lo/10^9, in integers that
\* stay below 2^31 for dpi <= 1000.  round() rounds an exact half to even, which
\* no integer dpi below 10^8 produces with these two constants.
RoundInches(hi, lo, dpi) ==
    LET a == dpi * hi
        r == (a % 1000) * 1000000 + dpi * lo
    IN  (a \div 1000) + ((r + 500000000) \div 1000000000)

A4ShortIn(dpi) == RoundInches(8267, 716535, dpi)      \* 8.267716535 in
A4LongIn(dpi)  == RoundInches(11692, 913386, dpi)     \* 11.692913386 in

a4_dimensions(dpi, orientation) ==
    IF orientation = "a4portrait"
    THEN <<A4ShortIn(dpi), A4LongIn(dpi)>>
    ELSE <<A4LongIn(dpi), A4ShortIn(dpi)>>

-----------------------------------------------------------------------------
(* layout_positions *)

\* The two loops exchanged: cells enumerated column by column
layout_positions_column_major(sheet_w, sheet_h, card_w, card_h, cols, rows, margin_px, gutter_px) ==
    LET x0 == (sheet_w - (cols * card_w + (cols - 1) * gutter_px)) \div 2
        y0 == (sheet_h - (rows * card_h + (rows - 1) * gutter_px)) \div 2
    IN  [i \in 1..(cols * rows) |->
            << x0 + ((i - 1) \div rows) * (card_w + gutter_px),
               y0 + ((i - 1) % rows) * (card_h + gutter_px) >>]

\* Division that truncates toward zero, as C or Java divide, in place of //
TruncDiv2(a) == IF a >= 0 THEN a \div 2 ELSE -((-a) \div 2)

layout_positions_truncating(sheet_w, sheet_h, card_w, card_h, cols, rows, margin_px, gutter_px) ==
    LET x0 == TruncDiv2(sheet_w - (cols * card_w + (cols - 1) * gutter_px))
        y0 == TruncDiv2(sheet_h - (rows * card_h + (rows - 1) * gutter_px))
    IN  [i \in 1..(cols * rows) |->
            << x0 + ((i - 1) % cols) * (card_w + gutter_px),
               y0 + ((i - 1) \div cols) * (card_h + gutter_px) >>]

\* A plausible use of the margin that the source does not make: the grid
\* origin kept at least margin_px away from the page edge
layout_positions_margin_clamped(sheet_w, sheet_h, card_w, card_h, cols, rows, margin_px, gutter_px) ==
    LET x0 == Max(margin_px, (sheet_w - (cols * card_w + (cols - 1) * gutter_px)) \div 2)
        y0 == Max(margin_px, (sheet_h - (rows * card_h + (rows - 1) * gutter_px)) \div 2)
    IN  [i \in 1..(cols * rows) |->
            << x0 + ((i - 1) % cols) * (card_w + gutter_px),
               y0 + ((i - 1) \div cols) * (card_h + gutter_px) >>]

layout_positions(sheet_w, sheet_h, card_w, card_h, cols, rows, margin_px, gutter_px) ==
    LET total_cards_w == cols * card_w + (cols - 1) * gutter_px
        total_cards_h == rows * card_h + (rows - 1) * gutter_px
        x0 == (sheet_w - total_cards_w) \div 2
        y0 == (sheet_h - total_cards_h) \div 2
        RECURSIVE col_loop(_, _)
        col_loop(r, c) ==
            IF c >= cols THEN <<>>
            ELSE << <<x0 + c * (card_w + gutter_px), y0 + r * (card_h + gutter_px)>> >>
                 \o col_loop(r, c + 1)
        RECURSIVE row_loop(_)
        row_loop(r) ==
            IF r >= rows THEN <<>> ELSE col_loop(r, 0) \o row_loop(r + 1)
    IN  row_loop(0)

-----------------------------------------------------------------------------
(* draw_crop_marks *)

\* The first mark drawn from the offset point toward the card
draw_crop_marks_inward(x, y, w, h, len_px, offset) ==
    << <<x - offset + len_px, y - offset,              x - offset,              y - offset>>,
       <<x - offset,          y - offset - len_px,     x - offset,              y - offset>>,
       <<x + w + offset,      y - offset,              x + w + offset + len_px, y - offset>>,
       <<x + w + offset,      y - offset - len_px,     x + w + offset,          y - offset>>,
       <<x - offset - len_px, y + h + offset,          x - offset,              y + h + offset>>,
       <<x - offset,          y + h + offset,          x - offset,              y + h + offset + len_px>>,
       <<x + w + offset,      y + h + offset,          x + w + offset + len_px, y + h + offset>>,
       <<x + w + offset,      y + h + offset,          x + w + offset,          y + h + offset + len_px>> >>

\* The eight draw.line calls, in order; a segment is <<x1, y1, x2, y2>>.
draw_crop_marks(x, y, w, h, len_px, offset) ==
    << <<x - offset - len_px, y - offset,              x - offset,              y - offset>>,
       <<x - offset,          y - offset - len_px,     x - offset,              y - offset>>,
       <<x + w + offset,      y - offset,              x + w + offset + len_px, y - offset>>,
       <<x + w + offset,      y - offset - len_px,     x + w + offset,          y - offset>>,
       <<x - offset - len_px, y + h + offset,          x - offset,              y + h + offset>>,
       <<x - offset,          y + h + offset,          x - offset,              y + h + offset + len_px>>,
       <<x + w + offset,      y + h + offset,          x + w + offset + len_px, y + h + offset>>,
       <<x + w + offset,      y + h + offset,          x + w + offset,          y + h + offset + len_px>> >>

-----------------------------------------------------------------------------
(* make_sheets : the page loop *)

CropLen    == 28      \* len_px of the call in make_sheets
CropOffset == 8       \* offset of the call in make_sheets
DefaultCardW == 744
DefaultCardH == 1039

\* `for png, (x,y) in zip(chunk, positions)`: paste, then the marks if asked.
\* zip stops at the shorter of the two.  A page is [cards, marks]: the pasted
\* images with their origins, and the line segments drawn, both in order.
RECURSIVE paste_loop(_, _, _, _, _, _, _)
paste_loop(chunk, cells, k, page, card_w, card_h, add_crop) ==
    IF k > Len(chunk) \/ k > Len(cells) THEN page
    ELSE LET x == cells[k][1]
             y == cells[k][2]
             pasted == [page EXCEPT !.cards = Append(@, [img |-> chunk[k], x |-> x, y |-> y])]
             marked == IF add_crop
                       THEN [pasted EXCEPT !.marks =
                                @ \o draw_crop_marks(x, y, card_w, card_h, CropLen, CropOffset)]
                       ELSE pasted
         IN  paste_loop(chunk, cells, k + 1, marked, card_w, card_h, add_crop)

\* The slice one short: pngs[i:i+per_page-1]
Slice_one_short(s, i, j) == SubSeq(s, i + 1, Min(j - 1, Len(s)))

\* pngs[i:i+per_page], i counted from 0
Slice(s, i, j) == SubSeq(s, i + 1, Min(j, Len(s)))

\* `for i in range(0, len(pngs), per_page)`
RECURSIVE page_loop(_, _, _, _, _, _, _)
page_loop(images, cells, per_page, i, card_w, card_h, add_crop) ==
    IF i >= Len(images) THEN <<>>
    ELSE << paste_loop(Slice(images, i, i + per_page), cells, 1,
                       [cards |-> <<>>, marks |-> <<>>], card_w, card_h, add_crop) >>
         \o page_loop(images, cells, per_page, i + per_page, card_w, card_h, add_crop)

compose_pages(images, cells, per_page, card_w, card_h, add_crop) ==
    page_loop(images, cells, per_page, 0, card_w, card_h, add_crop)

-----------------------------------------------------------------------------
(* The inputs of a run *)

\* Directory listings (stems of *.svg).  The second holds two files whose
\* names differ only in case.
Dirs == { {<<"S","w">>, <<"P","o">>},
          {<<"S","w">>, <<"s","w">>} }

\* Names asked for: another case of a file, a name to be stripped, a missing one
ReqNames == { <<"s","W">>, <<"P","o"," ">>, <<"x">> }

Counts == {0, 1, 2}

AddItems ==
    {[name |-> n, cnt |-> c, eq |-> TRUE] : n \in ReqNames, c \in Counts}
    \cup {[name |-> <<"x">>, cnt |-> 0, eq |-> FALSE]}

\* --dpi, --orientation, --margin, --gutter, --crop
SheetOpts ==
    { [dpi |-> 300, orientation |-> "a4portrait",  margin |-> 60, gutter |-> 18, crop |-> FALSE],
      [dpi |-> 300, orientation |-> "a4portrait",  margin |-> 60, gutter |-> 18, crop |-> TRUE],
      [dpi |-> 300, orientation |-> "a4portrait",  margin |-> 0,  gutter |-> 18, crop |-> TRUE],
      [dpi |-> 300, orientation |-> "a4landscape", margin |-> 60, gutter |-> 18, crop |-> TRUE],
      [dpi |-> 72,  orientation |-> "a4portrait",  margin |-> 60, gutter |-> 0,  crop |-> TRUE] }

MkArgs(add, o, cols, rows) ==
    [add |-> add, dpi |-> o.dpi, orientation |-> o.orientation, cols |-> cols,
     rows |-> rows, margin |-> o.margin, gutter |-> o.gutter, crop |-> o.crop,
     card_w |-> DefaultCardW, card_h |-> DefaultCardH]

\* "Sword_of_the_Autumn_Wolf=10", "Potion_of_Brightmind=5" on the default 3x3
\* grid, the two names written Sw and Po here
ScenarioA ==
    MkArgs(<< [name |-> <<"S","w">>, cnt |-> 10, eq |-> TRUE],
              [name |-> <<"P","o">>, cnt |-> 5,  eq |-> TRUE] >>,
           [dpi |-> 300, orientation |-> "a4portrait", margin |-> 60, gutter |-> 18,
            crop |-> TRUE], 3, 3)

MainArgs ==
    {MkArgs(add, o, c, r) : add \in SeqsUpTo(AddItems, MaxAdds), o \in SheetOpts,
                            c \in 1..MaxGrid, r \in 1..MaxGrid}
    \cup {ScenarioA}

DirectArgs ==
    {MkArgs(<<>>, o, c, r) : o \in SheetOpts, c \in 1..MaxGrid, r \in 1..MaxGrid}

Paths == {<<"S","w">>, <<"P","o">>}

IdleSheet ==
    /\ pc = "idle" /\ entry = "none" /\ args = <<>> /\ cards_dir = {}
    /\ requests = <<>> /\ svg_list = <<>> /\ raster_calls = 0 /\ pngs = <<>>
    /\ positions = <<>> /\ pages = <<>> /\ out_pdf = <<>> /\ error = "none"
IdleLayout == lpc = "idle" /\ lin = <<>> /\ lout = <<>>
IdleCard   == cpc = "idle" /\ card = <<>> /\ theme = <<>> /\ opt_str = <<>> /\ svg = <<>>
IdleWrap   == wpc = "idle" /\ win = <<>> /\ lines = <<>> /\ tspans = <<>>

InitSheet ==
    /\ requests = <<>> /\ raster_calls = 0 /\ pngs = <<>> /\ positions = <<>>
    /\ pages = <<>> /\ out_pdf = <<>> /\ error = "none"
    /\ \/ /\ entry = "main" /\ pc = "main"
          /\ args \in MainArgs
          /\ cards_dir \in Dirs
          /\ svg_list = <<>>
       \/ /\ entry = "make_sheets" /\ pc = "make_sheets"
          /\ args \in DirectArgs
          /\ cards_dir = {}
          /\ svg_list \in SeqsUpTo(Paths, MaxPaths)

Init == InitSheet /\ IdleLayout /\ IdleCard /\ IdleWrap

-----------------------------------------------------------------------------
(* One run of collect_and_print.py *)

Fail(e) ==
    /\ pc' = "failed"
    /\ error' = e

\* main: requests = parse_adds(args.add); ap.error when nothing is left
ParseAdds ==
    /\ pc = "main"
    /\ LET r == parse_adds(args.add) IN
       IF ~r.ok THEN Fail("ValueError") /\ UNCHANGED requests
       ELSE IF r.out = <<>> THEN Fail("SystemExit") /\ UNCHANGED requests
       ELSE requests' = r.out /\ pc' = "collect_files" /\ UNCHANGED error
    /\ UNCHANGED <<entry, args, cards_dir, svg_list, raster_calls, pngs,
                   positions, pages, out_pdf>>
    /\ UNCHANGED <<layVars, cardVars, wrapVars>>

\* main: svg_list = collect_files(cards_dir, requests)
CollectFiles ==
    /\ pc = "collect_files"
    /\ \E index \in Indexes(cards_dir) :
         LET r == collect_files(index, requests) IN
         IF r.ok THEN svg_list' = r.out /\ pc' = "make_sheets" /\ UNCHANGED error
         ELSE Fail("FileNotFoundError") /\ UNCHANGED svg_list
    /\ UNCHANGED <<entry, args, cards_dir, requests, raster_calls, pngs,
                   positions, pages, out_pdf>>
    /\ UNCHANGED <<layVars, cardVars, wrapVars>>

\* make_sheets up to the rasterization loop: find_inkscape, a4_dimensions,
\* layout_positions
MakeSheetsStart ==
    /\ pc = "make_sheets"
    /\ \E inkscape \in BOOLEAN :
         IF ~inkscape THEN Fail("EnvironmentError") /\ UNCHANGED positions
         ELSE LET sheet == a4_dimensions(args.dpi, args.orientation) IN
              /\ positions' = layout_positions(sheet[1], sheet[2], args.card_w,
                                  args.card_h, args.cols, args.rows, args.margin,
                                  args.gutter)
              /\ pc' = "rasterize"
              /\ UNCHANGED error
    /\ UNCHANGED <<entry, args, cards_dir, requests, svg_list, raster_calls,
                   pngs, pages, out_pdf>>
    /\ UNCHANGED <<layVars, cardVars, wrapVars>>

\* One turn of `for i, svg in enumerate(svg_paths, 1)`: rasterize_svg either
\* writes card_<i>.png or raises RuntimeError
RasterizeSvg ==
    /\ pc = "rasterize"
    /\ Len(pngs) < Len(svg_list)
    /\ raster_calls' = raster_calls + 1
    /\ \E exported \in BOOLEAN :
         IF exported
         THEN /\ pngs' = Append(pngs, [file |-> Len(pngs) + 1,
                                       svg |-> svg_list[Len(pngs) + 1]])
              /\ UNCHANGED <<pc, error>>
         ELSE Fail("RuntimeError") /\ UNCHANGED pngs
    /\ UNCHANGED <<entry, args, cards_dir, requests, svg_list, positions,
                   pages, out_pdf>>
    /\ UNCHANGED <<layVars, cardVars, wrapVars>>

\* The page loop, once every image is rasterized
ComposePages ==
    /\ pc = "rasterize"
    /\ Len(pngs) = Len(svg_list)
    /\ pages' = compose_pages(pngs, positions, args.cols * args.rows,
                              args.card_w, args.card_h, args.crop)
    /\ pc' = "save"
    /\ UNCHANGED <<entry, args, cards_dir, requests, svg_list, raster_calls,
                   pngs, positions, out_pdf, error>>
    /\ UNCHANGED <<layVars, cardVars, wrapVars>>

\* pages[0].save(...): one page alone, or the first with the others appended
SavePdf ==
    /\ pc = "save"
    /\ IF Len(pages) = 1
       THEN out_pdf' = <<pages>> /\ pc' = "done" /\ UNCHANGED error
       ELSE IF pages = <<>>
       THEN Fail("IndexError") /\ UNCHANGED out_pdf
       ELSE out_pdf' = << <<Head(pages)>> \o Tail(pages) >> /\ pc' = "done"
            /\ UNCHANGED error
    /\ UNCHANGED <<entry, args, cards_dir, requests, svg_list, raster_calls,
                   pngs, positions, pages>>
    /\ UNCHANGED <<layVars, cardVars, wrapVars>>

Next ==
    \/ ParseAdds
    \/ CollectFiles
    \/ MakeSheetsStart
    \/ RasterizeSvg
    \/ ComposePages
    \/ SavePdf

Spec == Init /\ [][Next]_vars

-----------------------------------------------------------------------------
(* Properties of the run of collect_and_print.py *)

Composed == pc \in {"save", "done"}

PerPage == args.cols * args.rows

\* ceil(n / d) for d >= 1
CeilDiv(n, d) == (n + d - 1) \div d

\* C1: n >= 1 images on a cols x rows grid give ceil(n / (cols*rows)) pages;
\* every page but the last holds cols*rows cards and the last holds the
\* remaining n - (pages-1)*cols*rows, between 1 and cols*rows; the document
\* written holds these pages.  The request Sw=10, Po=5 on the 3x3 grid gives
\* 15 cards on 2 pages of 9 and 6.
C1_Pagination ==
    /\ (Composed /\ Len(svg_list) >= 1) =>
          LET n == Len(svg_list)
              P == Len(pages)
          IN  /\ P = CeilDiv(n, PerPage)
              /\ \A p \in 1..(P - 1) : Len(pages[p].cards) = PerPage
              /\ Len(pages[P].cards) = n - (P - 1) * PerPage
              /\ Len(pages[P].cards) \in 1..PerPage
              /\ (pc = "done" => out_pdf = <<pages>>)
    /\ (Composed /\ args = ScenarioA) =>
          /\ Len(svg_list) = 15
          /\ Len(pages) = 2
          /\ Len(pages[1].cards) = 9
          /\ Len(pages[2].cards) = 6

\* C1 witness: the run of scenario A has written its two pages
C1_Witness ==
    /\ pc = "done" /\ args = ScenarioA
    /\ Len(out_pdf[1]) = 2

\* The origin of the grid block, as layout_positions is to centre it
GridX0 ==
    LET sheet == a4_dimensions(args.dpi, args.orientation)
    IN  (sheet[1] - (args.cols * args.card_w + (args.cols - 1) * args.gutter)) \div 2
GridY0 ==
    LET sheet == a4_dimensions(args.dpi, args.orientation)
    IN  (sheet[2] - (args.rows * args.card_h + (args.rows - 1) * args.gutter)) \div 2

\* Every card pasted, page after page
RECURSIVE Placed(_)
Placed(ps) == IF ps = <<>> THEN <<>> ELSE Head(ps).cards \o Placed(Tail(ps))

\* C2: the cell origins are row-major, the origin of index r*cols + c being
\* (x0 + c*(card_w + gutter), y0 + r*(card_h + gutter)); the i-th image
\* (from 0) is pasted on page i div (cols*rows) at the origin of index
\* i mod (cols*rows); every image is pasted once, in input order.
C2_RowMajorFirstPageFirst ==
    /\ pc \in {"rasterize", "save", "done"} =>
          /\ Len(positions) = PerPage
          /\ \A r \in 0..(args.rows - 1) : \A c \in 0..(args.cols - 1) :
                positions[r * args.cols + c + 1] =
                    << GridX0 + c * (args.card_w + args.gutter),
                       GridY0 + r * (args.card_h + args.gutter) >>
    /\ Composed =>
          /\ \A i \in 0..(Len(svg_list) - 1) :
                LET p == i \div PerPage
                    k == i % PerPage
                IN  /\ p + 1 \in DOMAIN pages
                    /\ k + 1 \in DOMAIN pages[p + 1].cards
                    /\ pages[p + 1].cards[k + 1] =
                          [img |-> [file |-> i + 1, svg |-> svg_list[i + 1]],
                           x |-> positions[k + 1][1], y |-> positions[k + 1][2]]
          /\ Len(Placed(pages)) = Len(svg_list)
          /\ \A j \in 1..Len(Placed(pages)) : Placed(pages)[j].img.file = j

\* C2 witness: a 2x2 grid (more than one row and column), a full first page
\* and a partial last page holding two different cards
C2_Witness ==
    /\ pc = "done" /\ args.cols = 2 /\ args.rows = 2 /\ Len(pages) >= 2
    /\ Len(pages[Len(pages)].cards) < PerPage
    /\ pages[1].cards[1].img.svg # pages[1].cards[2].img.svg
    /\ pages[1].cards[2].x # pages[1].cards[3].x
    /\ pages[1].cards[2].y # pages[1].cards[3].y

\* C4: make_sheets called with no image ends without raising and yields no
\* page (Inkscape being installed).
C4_EmptyInputYieldsNoPages ==
    (entry = "make_sheets" /\ svg_list = <<>> /\ error # "EnvironmentError") =>
        /\ pc # "failed"
        /\ (pc = "done" => pages = <<>> /\ out_pdf = << <<>> >>)

\* Two letters that are the same but for their case
CasePairs == { <<"S","s">>, <<"W","w">>, <<"P","p">>, <<"O","o">> }
SameLetter(a, b) == a = b \/ <<a, b>> \in CasePairs \/ <<b, a>> \in CasePairs
SameName(a, b) == Len(a) = Len(b) /\ \A i \in 1..Len(a) : SameLetter(a[i], b[i])

Resolves(base) == \E f \in cards_dir : SameName(base, f)

RECURSIVE TotalCount(_)
TotalCount(reqs) == IF reqs = <<>> THEN 0 ELSE Head(reqs).count + TotalCount(Tail(reqs))

\* The request that asked for the j-th card of the expanded list
RECURSIVE OwnerOf(_, _)
OwnerOf(reqs, j) ==
    IF j <= Head(reqs).count THEN Head(reqs) ELSE OwnerOf(Tail(reqs), j - Head(reqs).count)

PastCollect == entry = "main" /\ pc \notin {"main", "collect_files"} /\ requests # <<>>

\* C5: a requested name that matches no card file, whatever the case of its
\* letters and wherever it stands in the request list, ends the run with the
\* card-not-found error before any rasterization and with no output written;
\* when every name matches a file but for case, the lookup succeeds and gives,
\* per request, that many copies of a matching file.
C5_LookupFailsFast ==
    /\ error = "FileNotFoundError" =>
          raster_calls = 0 /\ pngs = <<>> /\ pages = <<>> /\ out_pdf = <<>>
    /\ (PastCollect /\ \E i \in 1..Len(requests) : ~Resolves(requests[i].base)) =>
          /\ pc = "failed" /\ error = "FileNotFoundError"
          /\ raster_calls = 0 /\ out_pdf = <<>>
    /\ (PastCollect /\ \A i \in 1..Len(requests) : Resolves(requests[i].base)) =>
          /\ error # "FileNotFoundError"
          /\ Len(svg_list) = TotalCount(requests)
          /\ \A j \in 1..Len(svg_list) :
                /\ svg_list[j] \in cards_dir
                /\ SameName(svg_list[j], OwnerOf(requests, j).base)

\* C5 witness: the second of two requests is the missing one, the first
\* resolves, and the run has failed
C5_Witness ==
    /\ pc = "failed" /\ error = "FileNotFoundError"
    /\ Len(requests) = 2
    /\ Resolves(requests[1].base) /\ ~Resolves(requests[2].base)

\* The points of an axis-parallel segment <<x1, y1, x2, y2>> are those of the
\* degenerate rectangle it spans; it touches the box [x, x+w] x [y, y+h] when
\* the two overlap on both axes.
SegTouchesBox(sg, x, y, w, h) ==
    /\ Min(sg[1], sg[3]) <= x + w /\ Max(sg[1], sg[3]) >= x
    /\ Min(sg[2], sg[4]) <= y + h /\ Max(sg[2], sg[4]) >= y

\* A segment with its end points in order
Ordered(sg) ==
    IF sg[1] < sg[3] \/ (sg[1] = sg[3] /\ sg[2] <= sg[4]) THEN sg
    ELSE <<sg[3], sg[4], sg[1], sg[2]>>

\* The corner brackets: at each corner, from the point `offset` outside the
\* box on both axes, one segment along x and one along y, each going away
\* from the box by len_px.  sx, sy = -1 is the left/top side, +1 the other.
Brackets(x, y, w, h, len_px, offset) ==
    UNION { LET ax == (IF sx = 1 THEN x + w ELSE x) + sx * offset
                ay == (IF sy = 1 THEN y + h ELSE y) + sy * offset
            IN  { Ordered(<<ax, ay, ax + sx * len_px, ay>>),
                  Ordered(<<ax, ay, ax, ay + sy * len_px>>) }
            : sx \in {-1, 1}, sy \in {-1, 1} }

MarksOk(marks, x, y, w, h, len_px, offset) ==
    /\ Len(marks) = 8
    /\ {Ordered(marks[i]) : i \in 1..8} = Brackets(x, y, w, h, len_px, offset)
    /\ \A i \in 1..8 : ~SegTouchesBox(marks[i], x, y, w, h)

\* C9: with crop marks on, every page holds eight segments per pasted card
\* and none for an empty cell (none at all with crop marks off); the eight of
\* a card are its corner brackets at the fixed offset and length, and for
\* every offset >= 1 no point of them lies in the card's box.
C9_CropMarksOutsideCard ==
    Composed =>
      \A p \in 1..Len(pages) :
        LET pg == pages[p] IN
        IF ~args.crop THEN pg.marks = <<>>
        ELSE /\ Len(pg.marks) = 8 * Len(pg.cards)
             /\ \A k \in 1..Len(pg.cards) :
                  LET cd == pg.cards[k] IN
                  /\ MarksOk(SubSeq(pg.marks, 8 * (k - 1) + 1, 8 * k), cd.x, cd.y,
                             args.card_w, args.card_h, CropLen, CropOffset)
                  /\ \A off \in 1..MaxOffset : \A ln \in 0..MaxLen :
                       LET m == draw_crop_marks(cd.x, cd.y, args.card_w,
                                                args.card_h, ln, off)
                       IN  /\ {Ordered(m[i]) : i \in 1..8}
                                = Brackets(cd.x, cd.y, args.card_w, args.card_h, ln, off)
                           /\ \A i \in 1..8 :
                                ~SegTouchesBox(m[i], cd.x, cd.y, args.card_w, args.card_h)

\* C9 witness: crop marks on, a partial last page after a full one, marks
\* drawn for its cards only
C9_Witness ==
    /\ pc = "done" /\ args.crop /\ Len(pages) >= 2
    /\ Len(pages[Len(pages)].cards) < PerPage
    /\ Len(pages[Len(pages)].marks) = 8 * Len(pages[Len(pages)].cards)
    /\ Len(pages[1].marks) = 8 * PerPage

-----------------------------------------------------------------------------
(* layout_positions called on its own *)

\* The default grid and card on a page 2481 wide
Example2481 ==
    [sheet_w |-> 2481, sheet_h |-> 3508, card_w |-> DefaultCardW,
     card_h |-> DefaultCardH, cols |-> 3, rows |-> 3, margin_px |-> 60,
     gutter_px |-> 18]

LayoutInputs ==
    [sheet_w : 0..MaxSheet, sheet_h : 0..MaxSheet, card_w : 1..MaxCard,
     card_h : 1..MaxCard, cols : 1..MaxGrid, rows : 1..MaxGrid,
     margin_px : 0..MaxMargin, gutter_px : (-1)..MaxGutter]
    \cup {Example2481}

InitLayout ==
    /\ lpc = "call"
    /\ lin \in LayoutInputs
    /\ lout = <<>>

LayoutCall ==
    /\ lpc = "call"
    /\ lout' = layout_positions(lin.sheet_w, lin.sheet_h, lin.card_w, lin.card_h,
                                lin.cols, lin.rows, lin.margin_px, lin.gutter_px)
    /\ lpc' = "done"
    /\ UNCHANGED lin
    /\ UNCHANGED <<sheetVars, cardVars, wrapVars>>

NextLayout ==
    \/ LayoutCall

LayoutInit == IdleSheet /\ InitLayout /\ IdleCard /\ IdleWrap

SpecLayout == LayoutInit /\ [][NextLayout]_vars

\* What is left of the page beside the grid block, once the margin before the
\* block is taken on both sides: right (bottom) margin minus left (top) margin
SlackX == lin.sheet_w - (2 * lout[1][1] + lin.cols * lin.card_w
                         + (lin.cols - 1) * lin.gutter_px)
SlackY == lin.sheet_h - (2 * lout[1][2] + lin.rows * lin.card_h
                         + (lin.rows - 1) * lin.gutter_px)

\* C3: the first cell origin (x0, y0) centres the grid block with the odd
\* pixel on the far side: 0 <= sheet_w - (2*x0 + cols*card_w + (cols-1)*gutter)
\* <= 1, and the same vertically, also when the block is larger than the page;
\* on the page 2481 wide, 2*x0 + 3*744 + 2*18 is within 1 of 2481.
C3_CenteredFloorBiased ==
    lpc = "done" =>
        /\ SlackX \in {0, 1}
        /\ SlackY \in {0, 1}
        /\ (lin = Example2481 =>
               LET d == 2 * lout[1][1] + 3 * 744 + 2 * 18 - 2481
               IN  d \in {-1, 0, 1})

\* C3 witness: a block wider and higher than the page, with an odd remainder
\* on x and an even one on y
C3_Witness ==
    /\ lpc = "done"
    /\ lin.cols * lin.card_w + (lin.cols - 1) * lin.gutter_px > lin.sheet_w
    /\ lin.rows * lin.card_h + (lin.rows - 1) * lin.gutter_px > lin.sheet_h
    /\ lout[1][1] < 0 /\ lout[1][2] < 0
    /\ SlackX = 1 /\ SlackY = 0

-----------------------------------------------------------------------------
(* generate_cards.py : get_theme *)

\* dict.get(key, default)
Get(d, key, default) == IF key \in DOMAIN d THEN d[key] ELSE default

\* dict.update(other): the keys of other win, the others stay
Updated(d, other) ==
    [k \in DOMAIN d \cup DOMAIN other |-> IF k \in DOMAIN other THEN other[k] ELSE d[k]]

EmptyDict == [k \in {} |-> k]

card_width    == 744
card_height   == 1039
outer_padding == 12
inner_padding == outer_padding + 6
inner_width   == card_width - 2 * inner_padding
title_h       == 52

\* The art window put right under the top padding, the title bar forgotten
art_y_without_title == inner_padding + 6

art_y         == inner_padding + title_h + 6
art_h         == 430
type_y        == art_y + art_h + 6
type_h        == 52
rules_y       == type_y + type_h + 6
rules_h       == 360
opt_y         == rules_y + rules_h + 6
opt_h         == 52

\* The theme dict before the override is merged
DefaultTheme ==
    [ frame_bg     |-> "#1b1b1b",
      frame_inner  |-> "#B0B0B0",
      frame_border |-> "#121212",
      title_bg     |-> "#e9e3d9",
      title_fg     |-> "#111",
      art_bg       |-> "#ddd",
      type_bg      |-> "#ece7de",
      type_fg      |-> "#222",
      rules_bg     |-> "#f6f2ea",
      rules_fg     |-> "#222",
      flavor_fg    |-> "#555",
      footer_fg    |-> "#444",
      pt_bg        |-> "#e9e3d9",
      pt_fg        |-> "#111",
      font_serif   |-> "Georgia, 'Times New Roman', serif",
      font_sans    |-> "Inter, Arial, sans-serif",
      card_sz          |-> <<card_width, card_height>>,
      inner_rec        |-> <<outer_padding, outer_padding,
                             card_width - 2 * outer_padding,
                             card_height - 2 * outer_padding>>,
      title_rec        |-> <<inner_padding, inner_padding, inner_width, title_h>>,
      title_txt_rec    |-> <<inner_padding + 18, inner_padding + title_h - 16, 32>>,
      title_rarity_rec |-> <<card_width - 2 * inner_padding - 18,
                             inner_padding + title_h - 16, 24>>,
      art_rec          |-> <<inner_padding, art_y, inner_width, art_h>>,
      type_rec         |-> <<inner_padding, type_y, inner_width, type_h>>,
      type_txt_rec     |-> <<inner_padding + 18, type_y + type_h - 18, 24>>,
      rules_rec        |-> <<inner_padding, rules_y, inner_width, rules_h>>,
      rules_txt_rec    |-> <<inner_padding + 18, rules_y + 6 + 24, 24>>,
      flavor_txt_rec   |-> <<inner_padding + 18, rules_y + rules_h - 48, 24>>,
      footer_txt_rec_l |-> <<inner_padding + 11, card_height - inner_padding - 6, 11>>,
      footer_txt_rec_r |-> <<card_width - 2 * inner_padding - 11,
                             card_height - inner_padding - 6, 11>>,
      opt_box          |-> <<inner_padding + inner_width, opt_y, 150, 54>>,
      opt_txt_rec      |-> <<inner_padding + inner_width - 75, opt_y + opt_h - 16, 24>> ]

rarity_colors ==
    ("Common"    :> "#B0B0B0") @@
    ("Uncommon"  :> "#81AD82") @@
    ("Rare"      :> "#B8D8F1") @@
    ("Very Rare" :> "#F1DAB6") @@
    ("Legendary" :> "#CF9F9F") @@
    ("Quest"     :> "#E9E3B5")

\* The rarity colour set first and the override merged after it
get_theme_override_last(name, rarity) ==
    LET coloured == IF rarity \in DOMAIN rarity_colors
                    THEN [DefaultTheme EXCEPT !.frame_inner = rarity_colors[rarity]]
                    ELSE DefaultTheme
    IN  Updated(coloured, name)

get_theme(name, rarity) ==
    LET merged == Updated(DefaultTheme, name)
    IN  IF rarity \in DOMAIN rarity_colors
        THEN [merged EXCEPT !.frame_inner = rarity_colors[rarity]]
        ELSE merged

-----------------------------------------------------------------------------
(* build_optional_str *)

\* `if el:` : None (the empty sequence) and the empty string are skipped
Truthy(el) == el # <<>> /\ el[1] # ""

\* `for el in [pt, price, weight]`; a badge is its rect (x, y, w, h), the
\* anchor of its text and the text
RECURSIVE opt_loop(_, _, _, _, _)
opt_loop(th, els, x, tx, out) ==
    IF els = <<>> THEN out
    ELSE LET y  == th.opt_box[2]
             w  == th.opt_box[3]
             h  == th.opt_box[4]
             ty == th.opt_txt_rec[2]
             fs == th.opt_txt_rec[3]
         IN  IF Truthy(Head(els))
             THEN opt_loop(th, Tail(els), x - (w + 6), tx - (w + 6),
                      Append(out, [rect |-> <<x - w, y, w, h>>,
                                   anchor |-> <<tx, ty, fs>>,
                                   text |-> Head(els)[1]]))
             ELSE opt_loop(th, Tail(els), x, tx, out)

\* The same loop stepping left for a skipped field too
RECURSIVE opt_loop_fixed_slots(_, _, _, _, _)
opt_loop_fixed_slots(th, els, x, tx, out) ==
    IF els = <<>> THEN out
    ELSE LET w == th.opt_box[3] IN
         opt_loop_fixed_slots(th, Tail(els), x - (w + 6), tx - (w + 6),
             IF Truthy(Head(els))
             THEN Append(out, [rect |-> <<x - w, th.opt_box[2], w, th.opt_box[4]>>,
                               anchor |-> <<tx, th.opt_txt_rec[2], th.opt_txt_rec[3]>>,
                               text |-> Head(els)[1]])
             ELSE out)

build_optional_str_fixed_slots(th, pt, price, weight) ==
    opt_loop_fixed_slots(th, <<pt, price, weight>>, th.opt_box[1], th.opt_txt_rec[1], <<>>)

build_optional_str(th, pt, price, weight) ==
    opt_loop(th, <<pt, price, weight>>, th.opt_box[1], th.opt_txt_rec[1], <<>>)

-----------------------------------------------------------------------------
(* build_svg *)

\* card.get(key, None)
GetOpt(d, key) == IF key \in DOMAIN d THEN <<d[key]>> ELSE <<>>

\* The rectangles the build_*_str functions write into the document, with
\* the canvas size and the fill of the inner frame
svg_rects(th, badges) ==
    [ card_sz    |-> th.card_sz,
      frame      |-> <<0, 0, th.card_sz[1], th.card_sz[2]>>,
      inner      |-> th.inner_rec,
      inner_fill |-> th.frame_inner,
      title      |-> th.title_rec,
      art        |-> th.art_rec,
      type       |-> th.type_rec,
      rules      |-> th.rules_rec,
      badges     |-> [k \in 1..Len(badges) |-> badges[k].rect] ]

\* Per-card theme overrides: none, colours, and rectangles put elsewhere
ThemeOverrides ==
    { EmptyDict,
      [frame_inner |-> "#123456"],
      [title_bg |-> "#ffffff", frame_inner |-> "#654321"],
      [rules_rec |-> <<18, 500, 708, 360>>],
      [card_sz |-> <<700, 900>>],
      [opt_box |-> <<726, 936, 300, 54>>] }

Rarities == DOMAIN rarity_colors \cup {"Mythic", "legendary"}

StatValues == [pt |-> {"", "2/3"}, price |-> {"", "50 gp"}, weight |-> {"", "3 lb."}]

\* A card entry: each key present or not
Cards ==
    { [k \in ks |-> f[k]] :
        ks \in SUBSET {"theme", "rarity", "pt", "price", "weight"},
        f \in [theme : ThemeOverrides, rarity : Rarities, pt : StatValues.pt,
               price : StatValues.price, weight : StatValues.weight] }

InitCard ==
    /\ cpc = "build_svg"
    /\ card \in Cards
    /\ theme = <<>> /\ opt_str = <<>> /\ svg = <<>>

BuildSvg ==
    /\ cpc = "build_svg"
    /\ LET th == get_theme(Get(card, "theme", EmptyDict), Get(card, "rarity", "Common"))
           badges == build_optional_str(th, GetOpt(card, "pt"), GetOpt(card, "price"),
                                        GetOpt(card, "weight"))
       IN  /\ theme' = th
           /\ opt_str' = badges
           /\ svg' = svg_rects(th, badges)
    /\ cpc' = "done"
    /\ UNCHANGED card
    /\ UNCHANGED <<sheetVars, layVars, wrapVars>>

NextCard ==
    \/ BuildSvg

CardInit == IdleSheet /\ IdleLayout /\ InitCard /\ IdleWrap

SpecCard == CardInit /\ [][NextCard]_vars

-----------------------------------------------------------------------------
(* Properties of build_svg *)

TheOverride == Get(card, "theme", EmptyDict)
TheRarity   == Get(card, "rarity", "Common")

\* The keys of the theme that hold the canvas size or a region's rectangle
GeometryKeys ==
    {"card_sz", "inner_rec", "title_rec", "art_rec", "type_rec", "rules_rec", "opt_box"}

\* The named regions of the document, one entry each: the four bands, then
\* the badges drawn
NamedRegions == <<svg.title, svg.art, svg.type, svg.rules>> \o svg.badges

\* Two rectangles (x, y, w, h) sharing more than an edge
Overlap(a, b) ==
    /\ a[1] < b[1] + b[3] /\ b[1] < a[1] + a[3]
    /\ a[2] < b[2] + b[4] /\ b[2] < a[2] + a[4]

InCanvas(r) ==
    /\ 0 <= r[1] /\ r[1] + r[3] <= svg.card_sz[1]
    /\ 0 <= r[2] /\ r[2] + r[4] <= svg.card_sz[2]

RegionsDisjointStackedInCanvas ==
    /\ \A m, n \in DOMAIN NamedRegions :
          m # n => ~Overlap(NamedRegions[m], NamedRegions[n])
    /\ svg.art[2]   = svg.title[2] + svg.title[4] + 6
    /\ svg.type[2]  = svg.art[2]   + svg.art[4]   + 6
    /\ svg.rules[2] = svg.type[2]  + svg.type[4]  + 6
    /\ \A k \in 1..Len(svg.badges) : svg.badges[k][2] = svg.rules[2] + svg.rules[4] + 6
    /\ InCanvas(svg.frame) /\ InCanvas(svg.inner)
    /\ \A n \in DOMAIN NamedRegions : InCanvas(NamedRegions[n])

C7_RarityResolvesInnerAccent ==
    cpc = "done" =>
        /\ theme.frame_inner =
              IF TheRarity \in DOMAIN rarity_colors THEN rarity_colors[TheRarity]
              ELSE IF "frame_inner" \in DOMAIN TheOverride THEN TheOverride.frame_inner
              ELSE "#B0B0B0"
        /\ (TheRarity = "Legendary" => theme.frame_inner = "#CF9F9F")
        /\ svg.inner_fill = theme.frame_inner

\* C7 witness: Legendary with an override of frame_inner: the palette wins
C7_Witness ==
    /\ cpc = "done"
    /\ "rarity" \in DOMAIN card /\ card.rarity = "Legendary"
    /\ "frame_inner" \in DOMAIN TheOverride
    /\ theme.frame_inner = "#CF9F9F"
    /\ theme.frame_inner # TheOverride.frame_inner

\* The stat fields in badge order
StatKeys == <<"pt", "price", "weight">>

Given(k)    == k \in DOMAIN card
NonEmpty(k) == k \in DOMAIN card /\ card[k] # ""

\* The rules box of the theme the override gives, whatever the stat fields
ExpectedRulesRec ==
    IF "rules_rec" \in DOMAIN TheOverride THEN TheOverride.rules_rec
    ELSE <<18, 570, 708, 360>>

\* One badge per field of `shown`, in order, the k-th (from 0) with its right
\* edge k*(width + 6) left of the region's right edge, and the rules box as
\* without badges
BadgesFor(shown) ==
    /\ Len(opt_str) = Len(shown)
    /\ \A k \in 0..(Len(shown) - 1) :
          /\ k + 1 \in DOMAIN opt_str
          /\ opt_str[k + 1].text = card[shown[k + 1]]
          /\ opt_str[k + 1].rect[1] + opt_str[k + 1].rect[3]
                = theme.opt_box[1] - k * (theme.opt_box[3] + 6)
          /\ opt_str[k + 1].rect[3] = theme.opt_box[3]
    /\ (shown = <<>> => opt_str = <<>>)
    /\ svg.rules = ExpectedRulesRec

\* C8 as stated: one badge per field that is present.
C8_BadgePerPresentField ==
    cpc = "done" => BadgesFor(SelectSeq(StatKeys, Given))

\* C8 amended: one badge per field that is present with a non-empty value,
\* right to left without gaps; none when no field has one; the rules box is
\* the same either way.
C8_BadgesRightToLeft ==
    cpc = "done" => BadgesFor(SelectSeq(StatKeys, NonEmpty))

\* C8 witness: pt absent, price and weight given: two badges, the first at
\* the right edge
C8_Witness ==
    /\ cpc = "done"
    /\ ~Given("pt") /\ NonEmpty("price") /\ NonEmpty("weight")
    /\ Len(opt_str) = 2
    /\ opt_str[1].text = card.price
    /\ opt_str[1].rect[1] + opt_str[1].rect[3] = theme.opt_box[1]

-----------------------------------------------------------------------------
(* generate_cards.py : wrap_svg_text.  A string is a sequence of one-character
   strings; "\n" is the line break. *)

RECURSIVE Concat(_)
Concat(ss) == IF ss = <<>> THEN <<>> ELSE Head(ss) \o Concat(Tail(ss))

\* str.replace(c, rep) for a single character c
RECURSIVE Replace(_, _, _)
Replace(str, c, rep) ==
    IF str = <<>> THEN <<>>
    ELSE (IF Head(str) = c THEN rep ELSE <<Head(str)>>) \o Replace(Tail(str), c, rep)

\* text.replace("&", "&amp;").replace("<", "&lt;").replace(">", "&gt;")
escape(text) ==
    Replace(Replace(Replace(text, "&", <<"&", "a", "m", "p", ";">>),
                    "<", <<"&", "l", "t", ";">>),
            ">", <<"&", "g", "t", ";">>)

\* text.split("\n")
RECURSIVE split_loop(_, _, _)
split_loop(text, cur, out) ==
    IF text = <<>> THEN Append(out, cur)
    ELSE IF Head(text) = "\n" THEN split_loop(Tail(text), <<>>, Append(out, cur))
    ELSE split_loop(Tail(text), Append(cur, Head(text)), out)

split_lines(text) == split_loop(text, <<>>, <<>>)

\* textwrap: the chunks of a paragraph, runs of blanks and runs of other
\* characters in turn (no hyphen or dash among the characters modelled)
RECURSIVE chunk_loop(_, _, _)
chunk_loop(para, cur, out) ==
    IF para = <<>> THEN (IF cur = <<>> THEN out ELSE Append(out, cur))
    ELSE IF cur = <<>> \/ ((Head(para) = " ") = (cur[1] = " "))
    THEN chunk_loop(Tail(para), Append(cur, Head(para)), out)
    ELSE chunk_loop(Tail(para), <<Head(para)>>, Append(out, cur))

split_chunks(para) == chunk_loop(para, <<>>, <<>>)

\* chunk.strip() == ''
IsBlank(str) == \A i \in 1..Len(str) : str[i] = " "

\* textwrap: the inner loop filling one line while the next chunk fits
RECURSIVE fill_line(_, _, _, _)
fill_line(chunks, cur_line, cur_len, width) ==
    IF chunks # <<>> /\ cur_len + Len(Head(chunks)) <= width
    THEN fill_line(Tail(chunks), Append(cur_line, Head(chunks)),
                   cur_len + Len(Head(chunks)), width)
    ELSE [line |-> cur_line, rest |-> chunks]

\* textwrap.TextWrapper._wrap_chunks with drop_whitespace and
\* break_long_words=False: a blank chunk is dropped at the start of every line
\* but the first and at the end of every line; a chunk longer than the width
\* gets a line of its own
RECURSIVE wrap_chunks(_, _, _)
wrap_chunks(chunks, out, width) ==
    IF chunks = <<>> THEN out
    ELSE LET start  == IF IsBlank(Head(chunks)) /\ out # <<>> THEN Tail(chunks) ELSE chunks
             filled == fill_line(start, <<>>, 0, width)
             long   == IF filled.rest # <<>> /\ Len(Head(filled.rest)) > width
                          /\ filled.line = <<>>
                       THEN [line |-> <<Head(filled.rest)>>, rest |-> Tail(filled.rest)]
                       ELSE filled
             kept   == IF long.line # <<>> /\ IsBlank(long.line[Len(long.line)])
                       THEN SubSeq(long.line, 1, Len(long.line) - 1)
                       ELSE long.line
         IN  wrap_chunks(long.rest,
                         IF kept # <<>> THEN Append(out, Concat(kept)) ELSE out,
                         width)

\* textwrap.wrap(para, width=width_chars, break_long_words=False)
textwrap_wrap(para, width) == wrap_chunks(split_chunks(para), <<>>, width)

\* `for para in text.split("\n")`: a blank paragraph gives one empty line,
\* any other its wrapped lines
RECURSIVE para_loop(_, _, _)
para_loop(paras, out, width) ==
    IF paras = <<>> THEN out
    ELSE IF strip(Head(paras)) = <<>>
    THEN para_loop(Tail(paras), Append(out, [text |-> <<>>, newline |-> TRUE]), width)
    ELSE para_loop(Tail(paras),
                   out \o [i \in 1..Len(textwrap_wrap(Head(paras), width)) |->
                              [text |-> textwrap_wrap(Head(paras), width)[i],
                               newline |-> TRUE]],
                   width)

\* `for entry in lines`: y is the dy of the next tspan
RECURSIVE tspan_loop(_, _, _, _, _)
tspan_loop(entries, y, out, line_height, x) ==
    IF entries = <<>> THEN out
    ELSE LET t == Head(entries).text IN
         tspan_loop(Tail(entries),
                    IF t = <<>> THEN line_height + line_height ELSE line_height,
                    Append(out, [x |-> x, dy |-> y, t |-> t]),
                    line_height, x)

\* The same loop without the extra line_height after an empty line
RECURSIVE tspan_loop_even(_, _, _, _, _)
tspan_loop_even(entries, y, out, line_height, x) ==
    IF entries = <<>> THEN out
    ELSE tspan_loop_even(Tail(entries), line_height,
                         Append(out, [x |-> x, dy |-> y, t |-> Head(entries).text]),
                         line_height, x)

make_tspans_even(entries, line_height, x) == tspan_loop_even(entries, 0, <<>>, line_height, x)

make_tspans(entries, line_height, x) == tspan_loop(entries, 0, <<>>, line_height, x)

\* `if isinstance(text, list)`: every element followed by a line break
RECURSIVE join_list(_)
join_list(els) ==
    IF els = <<>> THEN <<>> ELSE Head(els) \o <<"\n">> \o join_list(Tail(els))

\* The lines of wrap_svg_text: the text escaped, split and wrapped
wrap_lines(text, is_list, width_chars) ==
    LET str == IF is_list THEN join_list(text) ELSE text
    IN  para_loop(split_lines(escape(str)), <<>>, width_chars)

-----------------------------------------------------------------------------
(* wrap_svg_text called on its own *)

\* Paragraphs: empty, blanks only, one word, two words with a character to
\* escape, three words, a leading blank
ParaPool ==
    { <<>>,
      <<" ">>,
      <<"a", "b">>,
      <<"a", "b", " ", "&">>,
      <<"a", " ", "a", "b", " ", "a">>,
      <<" ", "<", "a">> }

\* "a\nb..." from its paragraphs
RECURSIVE JoinParas(_)
JoinParas(ps) ==
    IF ps = <<>> THEN <<>>
    ELSE IF Len(ps) = 1 THEN Head(ps)
    ELSE Head(ps) \o <<"\n">> \o JoinParas(Tail(ps))

\* width_chars, line_height and x: a narrow column at the default line
\* height, and the call of build_rules_str with the default theme
WrapOpts ==
    { [width_chars |-> 4,  line_height |-> 20, x |-> 0],
      [width_chars |-> 60, line_height |-> 24, x |-> 36] }

\* The text is the list of strings `parts`, or the string of these
\* paragraphs with a line break between them
WrapInputs ==
    { [is_list |-> l, parts |-> ps,
       width_chars |-> o.width_chars, line_height |-> o.line_height, x |-> o.x] :
      l \in BOOLEAN, ps \in SeqsUpTo(ParaPool, MaxParas), o \in WrapOpts }

InitWrap ==
    /\ wpc = "call"
    /\ win \in WrapInputs
    /\ lines = <<>> /\ tspans = <<>>

WrapSvgText ==
    /\ wpc = "call"
    /\ LET text == IF win.is_list THEN win.parts ELSE JoinParas(win.parts)
           ls == wrap_lines(text, win.is_list, win.width_chars)
       IN
       /\ lines' = ls
       /\ tspans' = make_tspans(ls, win.line_height, win.x)
    /\ wpc' = "done"
    /\ UNCHANGED win
    /\ UNCHANGED <<sheetVars, layVars, cardVars>>

NextWrap ==
    \/ WrapSvgText

WrapInit == IdleSheet /\ IdleLayout /\ IdleCard /\ InitWrap

SpecWrap == WrapInit /\ [][NextWrap]_vars

-----------------------------------------------------------------------------
(* Properties of wrap_svg_text *)

\* The paragraphs the text has: its parts, and for a list the empty one
\* after the last line break (an empty string is one empty paragraph)
InputParas ==
    IF win.is_list THEN Append(win.parts, <<>>)
    ELSE IF win.parts = <<>> THEN << <<>> >> ELSE win.parts

CountBlank(ss) == Cardinality({i \in 1..Len(ss) : IsBlank(ss[i])})

\* Every output line, the empty line of a blank paragraph included, is one
\* tspan, in order; there is one empty line per blank paragraph
OneTspanPerLine ==
    /\ Len(tspans) = Len(lines)
    /\ \A k \in 1..Len(lines) : tspans[k].t = lines[k].text /\ tspans[k].x = win.x
    /\ CountBlank([k \in 1..Len(lines) |-> lines[k].text]) = CountBlank(InputParas)
    /\ Len(lines) >= Len(InputParas)

\* C10 as stated: one tspan per line, the first with dy = 0 and every later
\* one with dy = line_height.
C10_EveryLineAdvancesOneLineHeight ==
    wpc = "done" =>
        /\ OneTspanPerLine
        /\ tspans[1].dy = 0
        /\ \A k \in 2..Len(tspans) : tspans[k].dy = win.line_height

\* C10 amended: one tspan per line, the first with dy = 0; a later one has
\* dy = line_height after a non-empty line and dy = 2 * line_height after an
\* empty line.
C10_LineAdvance ==
    wpc = "done" =>
        /\ OneTspanPerLine
        /\ tspans[1].dy = 0
        /\ \A k \in 2..Len(tspans) :
              tspans[k].dy = IF lines[k - 1].text = <<>>
                             THEN 2 * win.line_height
                             ELSE win.line_height

\* C10 witness: a paragraph wrapped onto two lines, then the empty line of a
\* blank paragraph, then a line after it
C10_Witness ==
    /\ wpc = "done"
    /\ Len(tspans) >= 4
    /\ tspans[1].t # <<>> /\ tspans[2].t # <<>> /\ tspans[3].t = <<>> /\ tspans[4].t # <<>>
    /\ Len(win.parts) = 3
    /\ tspans[2].dy = win.line_height
    /\ tspans[3].dy = win.line_height
    /\ tspans[4].dy = 2 * win.line_height

-----------------------------------------------------------------------------
(* Two calls that differ only in margin_px *)

\* The margins of the second call: the small ones and the default of --margin
Margins == (0..MaxMargin) \cup {60}

\* layout_positions called a second time, every argument as in the call
\* before it except margin_px
LayoutAgain ==
    /\ lpc = "done"
    /\ \E m \in Margins \ {lin.margin_px} :
         /\ lin' = [lin EXCEPT !.margin_px = m]
         /\ lout' = layout_positions(lin.sheet_w, lin.sheet_h, lin.card_w,
                                     lin.card_h, lin.cols, lin.rows, m,
                                     lin.gutter_px)
    /\ UNCHANGED lpc
    /\ UNCHANGED <<sheetVars, cardVars, wrapVars>>

\* make_sheets called a second time with another margin_px, up to its call of
\* layout_positions: the arguments of that call and the origins it returns
MakeSheetsAgain ==
    /\ pc \in {"done", "failed"}
    /\ positions # <<>>
    /\ lpc = "idle"
    /\ \E m \in Margins \ {args.margin} :
         LET sheet == a4_dimensions(args.dpi, args.orientation) IN
         /\ lin' = [sheet_w |-> sheet[1], sheet_h |-> sheet[2],
                    card_w |-> args.card_w, card_h |-> args.card_h,
                    cols |-> args.cols, rows |-> args.rows, margin_px |-> m,
                    gutter_px |-> args.gutter]
         /\ lout' = layout_positions(sheet[1], sheet[2], args.card_w,
                                     args.card_h, args.cols, args.rows, m,
                                     args.gutter)
    /\ lpc' = "done"
    /\ UNCHANGED <<sheetVars, cardVars, wrapVars>>

NextMargin ==
    \/ ParseAdds
    \/ CollectFiles
    \/ MakeSheetsStart
    \/ RasterizeSvg
    \/ ComposePages
    \/ SavePdf
    \/ MakeSheetsAgain
    \/ LayoutCall
    \/ LayoutAgain

\* Either a run of collect_and_print.py or a call of layout_positions alone
MarginInit == Init \/ LayoutInit

SpecMargin == MarginInit /\ [][NextMargin]_vars

\* The two calls of the step take the same arguments but for margin_px
OnlyMarginDiffers ==
    /\ lin'.margin_px # lin.margin_px
    /\ [lin' EXCEPT !.margin_px = lin.margin_px] = lin

=============================================================================
